---- MODULE Spec2Model ----
(***************************************************************************)
(* argocd-notifier: the watch / sequence / notify engine.                  *)
(*                                                                         *)
(*   CustomResourceOperator  watch subscriptions with reconnect back-off,  *)
(*                           the event queue and its drain loop, stop()    *)
(*   BaseResourceManager     dispatch of a refined event to a handler      *)
(*   ArgoCdApplicationResourceManager                                      *)
(*                           the per-application cache and the Slack       *)
(*                           create / update decision                      *)
(*                                                                         *)
(* Node runs one job at a time.  A job started by the event loop (a watch  *)
(* callback, a timer, a signal handler, the completion of a network call)  *)
(* runs with all the promise continuations it makes ready before the next  *)
(* job starts; `running` says which continuation is ready, and the jobs of *)
(* the event loop are enabled only when it is "none".  The only places     *)
(* where a handler really waits are the Slack calls.                       *)
(***************************************************************************)
EXTENDS Integers, Sequences, FiniteSets, TLC

\* ---------------------------------------------------------------- bounds
MaxEvents == 3          \* watch callbacks delivered in one run of the operator
MaxUpdates == 4         \* watch callbacks delivered in one deployment scenario
MaxFailures == 2        \* transport failures (error callbacks, rejected opens)
MaxReconnectEvents == 2 \* watch callbacks delivered in one reconnection scenario
MaxSequencerEvents == 4 \* watch callbacks delivered in one sequencer scenario
MaxClassifierEvents == 2 \* watch callbacks delivered in one classifier scenario
MaxIdentityEvents == 3  \* watch callbacks delivered in one cluster-wide scenario
MaxDetectorEvents == 3  \* watch callbacks delivered in one change-detection scenario
MaxSyncAllEvents == 2   \* watch callbacks delivered in one reconciliation scenario
MaxSyncAllRuns == 1     \* runs of the cron job in one reconciliation scenario
MaxTextLines == 2       \* lines of a change text handed to mergeChanges
MaxStopEvents == 3      \* watch callbacks delivered in one shutdown scenario
MaxRequests == 6        \* requests received by the health-check server

\* ------------------------------------------------------------- constants
\* the defaults of the constructor, scaled down: the initial delay is below
\* the cap and the second delay already reaches it
restartTimeout == 2     \* constructor default DEFAULT_RESTART_TIMEOUT
backOffFactor == 2      \* constructor default DEFAULT_BACK_OFF_FACTOR
maxRestartTimeout == 3  \* constructor default DEFAULT_MAX_RESTART_TIMEOUT

Kinds == {"applications"}
Names == {"app1", "app2"}
Namespaces == {"argocd", "team-a"}

None == "undefined"
ResourceEventType == {"ADDED", "MODIFIED", "DELETED"}
RefinedEventType == ResourceEventType \cup {"DELETING", "UP_TO_DATE"}
Phases == ResourceEventType \cup {"ERROR"}

Healthy == "Healthy"
Progressing == "Progressing"
Degraded == "Degraded"
Synced == "Synced"
OutOfSync == "OutOfSync"
N_A == "N/A"
ArgoCdHealthStatus == {Healthy, Progressing, Degraded, N_A}
ArgoCdSyncStatus == {Synced, OutOfSync, N_A}

Revisions == {"v1.0.0", "v1.1.0", "v1.1.1"}

\* message timestamps: the ones Slack hands out and the two literals of the code
Ts(n) == <<"ts", n>>
MockTimestamp == <<"mock-timestamp">>
MockTimestampUpdated == <<"mock-timestamp-updated">>

NoEntry == [absent |-> TRUE]     \* resourceCacheMap.has(name) is false
NoStatus == [absent |-> TRUE]    \* resource.status is undefined
NoSource == [absent |-> TRUE]    \* resource.spec.source is undefined

\* spec.destination as the API server delivers it: an object is the
\* sequence of its entries in insertion order
InCluster == << <<"server", "in-cluster">>, <<"namespace", "default">> >>
InClusterReordered == << <<"namespace", "default">>, <<"server", "in-cluster">> >>

VARIABLES
  subs,              \* every restartWatch call so far: its watch request
  abortControllers,  \* this.abortControllers: indices into subs
  restartDelay,      \* the closure variable of watchResource, per kind
  timers,            \* pending setTimeout(restartWatch, ...) per kind
  scheduled,         \* the delays passed to setTimeout so far, per kind
  onFailCalls,       \* the arguments of the onFail calls so far, per kind
  started,           \* init() has called watchResource for the kind
  stopped,           \* stop() has been called
  eventQueue,        \* this.eventQueue
  isProcessingQueue, \* this.isProcessingQueue
  running,           \* the continuation that is ready to run
  handlers,          \* onEvent invocations started and not yet completed,
                     \* and the syncAll invocation of the cron job
  resourceCacheMap,  \* ArgoCdApplicationResourceManager.resourceCacheMap
  nextTs,            \* the next message timestamp Slack hands out
  owners,            \* per name, the namespaces of the resources whose
                     \* handlers have written the cache entry of the name
  nEvents,           \* watch callbacks delivered so far
  nSyncs,            \* runs of the cron job so far
  nFailures,         \* transport failures so far
  call,              \* the last direct call of a helper: arguments and result
  last,              \* the handler invocation that completed last
  activeConnections, \* HealthCheckServer.activeConnections
  responses          \* the requests the health-check server has received,
                     \* each with the answer it got

vars == <<subs, abortControllers, restartDelay, timers, scheduled, onFailCalls, started,
          stopped, eventQueue, isProcessingQueue, running, handlers,
          resourceCacheMap, nextTs, owners, nEvents, nSyncs, nFailures, call, last,
          activeConnections, responses>>

subVars == <<subs, abortControllers, restartDelay, timers, scheduled, onFailCalls,
             started, nFailures>>
queueVars == <<eventQueue, isProcessingQueue>>
mgrVars == <<resourceCacheMap, nextTs, owners, last>>
httpVars == <<activeConnections, responses>>

Min(a, b) == IF a < b THEN a ELSE b

\* ------------------------------------------------------------ classifier
\* getRefinedEventType without its test that the observed generation is
\* present
getRefinedEventType_absentIsEqual(event) ==
  IF event.type = "DELETED" THEN "DELETED"
  ELSE IF event.object.deletionTimestamp # None THEN "DELETING"
  ELSE IF event.object.observedGeneration = event.object.generation THEN "UP_TO_DATE"
  ELSE event.type

\* getRefinedEventType testing the deletion timestamp before the raw phase
getRefinedEventType_timestampFirst(event) ==
  IF event.object.deletionTimestamp # None THEN "DELETING"
  ELSE IF event.type = "DELETED" THEN "DELETED"
  ELSE IF /\ event.object.observedGeneration # None
          /\ event.object.observedGeneration = event.object.generation
       THEN "UP_TO_DATE"
  ELSE event.type

getRefinedEventType(event) ==
  IF event.type = "DELETED" THEN "DELETED"
  ELSE IF event.object.deletionTimestamp # None THEN "DELETING"
  ELSE IF /\ event.object.observedGeneration # None
          /\ event.object.observedGeneration = event.object.generation
       THEN "UP_TO_DATE"
  ELSE event.type

\* --------------------------------------------------------- change detector
\* a JavaScript value: undefined, a primitive, an array of values, or an
\* object, which is the sequence of its entries <<key, value>> in
\* insertion order
Undefined == <<"undefined">>
Leaf(v) == <<"leaf", v>>
Arr(items) == <<"arr", items>>
Obj(entries) == <<"obj", entries>>

isObject(value) == value[1] = "obj"
isArray(value) == value[1] = "arr"

\* Object.keys(obj), `key in obj` and obj[key]
Keys(obj) == {obj[2][i][1] : i \in DOMAIN obj[2]}

Get(obj, key) ==
  IF key \in Keys(obj)
  THEN (CHOOSE e \in {obj[2][i] : i \in DOMAIN obj[2]} : e[1] = key)[2]
  ELSE Undefined

RECURSIVE deepCompare(_, _, _)
RECURSIVE arraysEqual(_, _, _)
RECURSIVE objectsEqual(_, _, _)

\* deepCompare: identical values are equal, arrays are compared item by
\* item, objects key by key, anything else differs
deepCompare(obj1, obj2, allowMissingAsUndefined) ==
  IF obj1 = obj2 THEN TRUE
  ELSE IF isArray(obj1) /\ isArray(obj2)
       THEN arraysEqual(obj1, obj2, allowMissingAsUndefined)
  ELSE IF isObject(obj1) /\ isObject(obj2)
       THEN objectsEqual(obj1, obj2, allowMissingAsUndefined)
  ELSE FALSE

arraysEqual(arr1, arr2, allowMissingAsUndefined) ==
  /\ Len(arr1[2]) = Len(arr2[2])
  /\ \A index \in DOMAIN arr1[2] :
        deepCompare(arr1[2][index], arr2[2][index], allowMissingAsUndefined)

\* objectsEqual: every key of either object is compared; with
\* allowMissingAsUndefined a key that one object lacks is passed over when
\* the other holds undefined under it, and makes the objects differ when
\* the other holds a value
objectsEqual(obj1, obj2, allowMissingAsUndefined) ==
  \A key \in Keys(obj1) \cup Keys(obj2) :
     LET val1 == Get(obj1, key)
         val2 == Get(obj2, key)
         keyInObj1 == key \in Keys(obj1)
         keyInObj2 == key \in Keys(obj2)
     IN  IF allowMissingAsUndefined /\ (~keyInObj1 \/ ~keyInObj2)
         THEN (val1 = Undefined /\ ~keyInObj2) \/ (val2 = Undefined /\ ~keyInObj1)
         ELSE deepCompare(val1, val2, allowMissingAsUndefined)

RECURSIVE filterChanges(_, _)
RECURSIVE filterEntries(_, _, _)

\* the for loop of filterChanges from the i-th key of partial on
filterEntries(partial, original, i) ==
  IF i > Len(partial[2]) THEN <<>>
  ELSE LET key == partial[2][i][1]
           partialValue == partial[2][i][2]
           originalValue == Get(original, key)
           nestedChanges == filterChanges(partialValue, originalValue)
           change ==
             IF deepCompare(partialValue, originalValue, TRUE) THEN <<>>
             ELSE IF isObject(originalValue) /\ isObject(partialValue)
                  THEN (IF Keys(nestedChanges) # {} THEN << <<key, nestedChanges>> >>
                        ELSE <<>>)
             ELSE IF ~deepCompare(originalValue, partialValue, FALSE)
                  THEN << <<key, partialValue>> >>
             ELSE <<>>
       IN  change \o filterEntries(partial, original, i + 1)

\* filterChanges: the entries of partial that differ from the original's
filterChanges(partial, original) == Obj(filterEntries(partial, original, 1))

\* the value of a spec of the deployment scenarios
Tree(spec) ==
  Obj(<< <<"source",
           Obj(<< <<"targetRevision", Leaf(spec.source.targetRevision)>> >>
               \o (IF spec.source.directory THEN << <<"directory", Obj(<<>>)>> >> ELSE <<>>))>>,
         <<"destination",
           Obj([i \in DOMAIN spec.destination |->
                  <<spec.destination[i][1], Leaf(spec.destination[i][2])>>])>> >>
      \o (IF "syncPolicy" \in DOMAIN spec THEN << <<"syncPolicy", Leaf(spec.syncPolicy)>> >>
          ELSE <<>>))

\* isOnlyImageTagOrTagRevisionChange: one top-level key has changed, it
\* is the source, and the target revision or the image tag of the helm
\* values is among its changes
isOnlyImageTagOrTagRevisionChange(cacheSpec, updateSpec) ==
  LET changesObject == filterChanges(updateSpec, cacheSpec)
      source == Get(changesObject, "source")
      helm == Get(source, "helm")
      valuesObject == Get(helm, "valuesObject")
      imageObject == IF valuesObject = Undefined THEN Obj(<<>>)
                     ELSE IF Get(valuesObject, "image") = Undefined THEN Obj(<<>>)
                     ELSE Get(valuesObject, "image")
  IN  IF Cardinality(Keys(changesObject)) # 1 THEN FALSE
      ELSE IF Keys(changesObject) = {"source"}
           THEN (IF Get(source, "targetRevision") # Undefined THEN TRUE
                 ELSE IF helm # Undefined THEN "tag" \in Keys(imageObject)
                 ELSE FALSE)
      ELSE FALSE

\* the options generateChangesString passes to generateReadableDiff
diffOptions(cacheObject, updateObject) ==
  LET isOnlyVersionUpdate == isOnlyImageTagOrTagRevisionChange(cacheObject, updateObject)
  IN  [contextLines |-> IF isOnlyVersionUpdate THEN 0 ELSE 2,
       separator |-> IF isOnlyVersionUpdate THEN "" ELSE "........."]

\* reorganizeSpec: syncPolicy is dropped, the source keys come first, the
\* rest of the spec follows as it is
reorganizeSpec(spec) ==
  [source |-> [targetRevision |-> spec.source.targetRevision,
               directory |-> spec.source.directory],
   destination |-> spec.destination]

\* YAML.stringify of a reorganised spec, one element per line; the
\* entries of an object are written in insertion order
Stringify(obj) ==
  << <<"source:">>,
     <<"  targetRevision:", obj.source.targetRevision>>,
     <<"  directory:", IF obj.source.directory THEN "{}" ELSE "">>,
     <<"destination:">> >>
  \o [i \in DOMAIN obj.destination |->
        <<"  ", obj.destination[i][1], ":", obj.destination[i][2]>>]

RECURSIVE DiffLines(_, _, _)
\* the changed lines of a patch with no context: at each changed position
\* the original line is removed and the updated line is added
DiffLines(orig, upd, i) ==
  IF i > Len(orig) THEN <<>>
  ELSE (IF orig[i] = upd[i] THEN <<>>
        ELSE << <<"-", i>> \o orig[i], <<"+", i>> \o upd[i] >>)
       \o DiffLines(orig, upd, i + 1)

generateReadableDiff(original, updated) ==
  DiffLines(Stringify(original), Stringify(updated), 1)

generateChangesString(cache, update) ==
  generateReadableDiff(reorganizeSpec(cache.spec), reorganizeSpec(update.spec))

hasStatusChanged(cachedResource, update) ==
  cachedResource.sync # update.sync \/ cachedResource.status # update.status

isDeploymentInProgress(update) ==
  update.sync # Synced \/ update.status # Healthy

Marker == <<"--- New changes (HH:MM) ---">>

\* mergeChanges putting the new changes first
mergeChanges_newFirst(existingChanges, newChanges) ==
  IF existingChanges = <<>> \/ newChanges = <<>>
  THEN (IF existingChanges # <<>> THEN existingChanges ELSE newChanges)
  ELSE newChanges \o <<Marker>> \o existingChanges

mergeChanges(existingChanges, newChanges) ==
  IF existingChanges = <<>> \/ newChanges = <<>>
  THEN (IF existingChanges # <<>> THEN existingChanges ELSE newChanges)
  ELSE existingChanges \o <<Marker>> \o newChanges

\* ---------------------------------------------------------------- manager
isDirectorySource(resource) == resource.spec.source.directory

ResourceUpdate(resource) ==
  [status |-> IF resource.status = NoStatus THEN N_A ELSE resource.status.health,
   sync   |-> IF resource.status = NoStatus THEN N_A ELSE resource.status.sync,
   spec   |-> resource.spec]

CacheEntry(update, lastMessageTs, persistentChanges, deploymentInProgress) ==
  [status |-> update.status, sync |-> update.sync, spec |-> update.spec,
   lastMessageTs |-> lastMessageTs,
   persistentChanges |-> persistentChanges,
   deploymentInProgress |-> deploymentInProgress]

\* handleResourceUpdate with the test of deploymentInProgress inverted
handleResourceUpdate_inverted(cachedResource, update) ==
  LET changesString == generateChangesString(cachedResource, update)
      hasChanges == Len(changesString) > 0
      statusChanged == hasStatusChanged(cachedResource, update)
  IN  IF statusChanged /\ hasChanges
      THEN (IF cachedResource.deploymentInProgress THEN "create" ELSE "update")
      ELSE IF statusChanged /\ cachedResource.deploymentInProgress THEN "update"
      ELSE "none"

\* handleResourceUpdate updating the message of a deployment in progress
\* on every event, changed or not
handleResourceUpdate_eager(cachedResource, update) ==
  LET changesString == generateChangesString(cachedResource, update)
      hasChanges == Len(changesString) > 0
      statusChanged == hasStatusChanged(cachedResource, update)
  IN  IF statusChanged /\ hasChanges
      THEN (IF ~cachedResource.deploymentInProgress THEN "create" ELSE "update")
      ELSE IF cachedResource.deploymentInProgress THEN "update"
      ELSE "none"

\* the branch handleResourceUpdate takes for a cached resource
handleResourceUpdate(cachedResource, update) ==
  LET changesString == generateChangesString(cachedResource, update)
      hasChanges == Len(changesString) > 0
      statusChanged == hasStatusChanged(cachedResource, update)
  IN  IF statusChanged /\ hasChanges
      THEN (IF ~cachedResource.deploymentInProgress THEN "create" ELSE "update")
      ELSE IF statusChanged /\ cachedResource.deploymentInProgress THEN "update"
      ELSE "none"

\* syncResource without its test of the source
syncResource_anySource(resource, cache) ==
  LET name == resource.name
      update == ResourceUpdate(resource)
  IN  IF resource.spec.source = NoSource THEN "throw"
      ELSE IF cache[name] = NoEntry THEN "init"
      ELSE handleResourceUpdate(cache[name], update)

\* what syncResource does with a resource before its first await; reading
\* spec.source.directory of an application without spec.source throws
syncResource(resource, cache) ==
  LET name == resource.name
      update == ResourceUpdate(resource)
  IN  IF resource.spec.source = NoSource THEN "throw"   \* TypeError
      ELSE IF isDirectorySource(resource) THEN "ignored"
      ELSE IF cache[name] = NoEntry THEN "init"
      ELSE handleResourceUpdate(cache[name], update)

\* handleEvent with a handleDeletedEvent that syncs the resource
Dispatch_deletedSyncs(event, cache) ==
  LET refined == getRefinedEventType(event)
  IN  IF refined \in {"ADDED", "MODIFIED", "UP_TO_DATE", "DELETED"}
      THEN syncResource(event.object, cache)
      ELSE IF refined = "DELETING" THEN "delete"
      ELSE "nohandler"

\* handleEvent with no handler for UpToDate
Dispatch_upToDateSkipped(event, cache) ==
  LET refined == getRefinedEventType(event)
  IN  IF refined \in {"ADDED", "MODIFIED"}
      THEN syncResource(event.object, cache)
      ELSE IF refined = "DELETING" THEN "delete"
      ELSE "nohandler"

\* the handler BaseResourceManager.handleEvent selects
Dispatch(event, cache) ==
  LET refined == getRefinedEventType(event)
  IN  IF refined \in {"ADDED", "MODIFIED", "UP_TO_DATE"}
      THEN syncResource(event.object, cache)
      ELSE IF refined = "DELETING" THEN "delete"
      ELSE "nohandler"

\* ------------------------------------------------------------ the inputs
Spec_(rev, dir, pol) ==
  [source |-> [targetRevision |-> rev, directory |-> dir],
   destination |-> InCluster, syncPolicy |-> pol]

Status_(h, s) == [health |-> h, sync |-> s]

\* what the API server delivers in the deployment scenarios: the phase and
\* the metadata of the object (new, changed, reconciled with
\* observedGeneration = generation, marked for deletion, deleted, and a
\* phase the operator does not know)
Plain == [deletionTimestamp |-> None, generation |-> "2", observedGeneration |-> None]
Reconciled == [deletionTimestamp |-> None, generation |-> "2", observedGeneration |-> "2"]
Terminating == [deletionTimestamp |-> "t", generation |-> "2", observedGeneration |-> "2"]

Deliveries ==
  { <<"ADDED", Plain>>, <<"MODIFIED", Plain>>, <<"MODIFIED", Reconciled>>,
    <<"MODIFIED", Terminating>>, <<"DELETED", Terminating>>, <<"ERROR", Plain>> }

Object_(name, meta, status, spec) ==
  [name |-> name, namespace |-> "argocd", deletionTimestamp |-> meta.deletionTimestamp,
   generation |-> meta.generation, observedGeneration |-> meta.observedGeneration,
   status |-> status, spec |-> spec]

\* the application of the deployment scenarios: three revisions of a chart,
\* a change of the sync policy alone, and a directory source
ManagerSpecs ==
  { Spec_(rev, FALSE, "manual") : rev \in Revisions }
    \cup { Spec_("v1.0.0", FALSE, "automated"), Spec_("v1.0.0", TRUE, "manual") }

ManagerStatuses ==
  { Status_(Healthy, Synced), Status_(Progressing, OutOfSync), Status_(Degraded, Synced) }

ManagerObjects(meta) ==
  { Object_("app1", meta, st, spec) : st \in ManagerStatuses, spec \in ManagerSpecs }

\* an application with several sources: spec.sources and no spec.source
MultiSource == [source |-> NoSource, destination |-> InCluster, syncPolicy |-> "manual"]

\* the application of the sequencer scenarios
SequencerObjects ==
  { Object_("app1", Plain, Status_(Healthy, Synced), Spec_("v1.0.0", FALSE, "manual")),
    Object_("app1", Plain, Status_(Progressing, OutOfSync), Spec_("v1.1.0", FALSE, "manual")),
    Object_("app1", Plain, Status_(Healthy, Synced), MultiSource) }

\* the objects of the classifier scenarios: every combination of a
\* deletion timestamp, a generation and an observed generation
ClassifierObjects ==
  { Object_("app1", [deletionTimestamp |-> dt, generation |-> gen, observedGeneration |-> og],
            st[1], Spec_(st[2], FALSE, "manual")) :
      dt \in {None, "t"}, gen \in {None, "2"}, og \in {None, "1", "2"},
      st \in {<<Status_(Healthy, Synced), "v1.0.0">>,
              <<Status_(Progressing, OutOfSync), "v1.1.0">>} }

\* the applications of a cluster-wide watch: one name in two namespaces
IdentityObjects ==
  { [Object_("app1", Plain, st[1], Spec_(st[2], FALSE, "manual")) EXCEPT !.namespace = ns] :
      ns \in Namespaces,
      st \in {<<Status_(Healthy, Synced), "v1.0.0">>,
              <<Status_(Progressing, OutOfSync), "v1.1.0">>} }

\* the application of the change-detection scenarios: two revisions, each
\* with the entries of spec.destination in either order
DetectorObjects ==
  { Object_("app1", Plain, st,
            [Spec_(rev, FALSE, "manual") EXCEPT !.destination = dest]) :
      st \in {Status_(Healthy, Synced), Status_(Progressing, OutOfSync)},
      rev \in {"v1.0.0", "v1.1.0"},
      dest \in {InCluster, InClusterReordered} }

\* the application of the reconciliation scenarios
SyncAllObjects ==
  { Object_("app1", Plain, Status_(Healthy, Synced), Spec_("v1.0.0", FALSE, "manual")),
    Object_("app1", Plain, Status_(Progressing, OutOfSync), Spec_("v1.1.0", FALSE, "manual")),
    Object_("app1", Plain, Status_(Healthy, Synced), MultiSource) }

\* reorganised specs of a helm application: every combination of two
\* values for the repository, the revision, the image tag, the value
\* files and the destination, with and without an image pull policy and a
\* project
DetailedSpecs ==
  { Obj(<< <<"source",
             Obj(<< <<"repoURL", Leaf(repoURL)>>,
                    <<"targetRevision", Leaf(targetRevision)>>,
                    <<"helm",
                      Obj(<< <<"valueFiles", Arr(<<Leaf(valueFile)>>)>>,
                             <<"valuesObject",
                               Obj(<< <<"image", Obj(<< <<"tag", Leaf(tag)>> >> \o pullPolicy)>> >>)>>
                          >>)>> >>)>>,
           <<"destination", Obj(<< <<"namespace", Leaf(namespace)>> >>)>> >> \o project) :
      repoURL \in {"charts.example.com", "charts.example.org"},
      targetRevision \in {"v1.0.0", "v1.1.0"},
      valueFile \in {"values.yaml", "values-prod.yaml"},
      tag \in {"1.0.0", "1.1.0"},
      pullPolicy \in {<<>>, << <<"pullPolicy", Leaf("Always")>> >>},
      namespace \in {"default", "team-a"},
      project \in {<<>>, << <<"project", Leaf("default")>> >>} }

\* the applications of the subscription scenarios
OperatorObjects ==
  { Object_(n, Plain, st[1], Spec_(st[2], FALSE, "manual")) :
      n \in Names,
      st \in {<<Status_(Healthy, Synced), "v1.0.0">>,
              <<Status_(Progressing, OutOfSync), "v1.1.0">>} }

\* ------------------------------------------------- CustomResourceOperator
NewSub(k) == [kind |-> k, st |-> "pending", aborted |-> FALSE, afterStop |-> stopped]

\* restartWatch up to its await: a new AbortController and a watch request
restartWatch(k) ==
  subs' = Append(subs, NewSub(k))

\* onWatchError escalating the delay before it arms the timer
onWatchError_escalateFirst(k, err) ==
  /\ onFailCalls' = [onFailCalls EXCEPT ![k] = Append(@, err)]
  /\ timers' = [timers EXCEPT ![k] = @ + 1]
  /\ scheduled' = [scheduled EXCEPT ![k] =
                     Append(@, Min(restartDelay[k] * backOffFactor, maxRestartTimeout))]
  /\ restartDelay' = [restartDelay EXCEPT ![k] = Min(@ * backOffFactor, maxRestartTimeout)]

\* onWatchError giving up when the watch could not be opened
onWatchError_openFailureIsFinal(k, err) ==
  /\ onFailCalls' = [onFailCalls EXCEPT ![k] = Append(@, err)]
  /\ timers' = [timers EXCEPT ![k] = IF err = None THEN @ ELSE @ + 1]
  /\ scheduled' = [scheduled EXCEPT ![k] = Append(@, restartDelay[k])]
  /\ restartDelay' = [restartDelay EXCEPT ![k] = Min(@ * backOffFactor, maxRestartTimeout)]

\* onWatchError with one delay shared by every watchResource call of the
\* operator
onWatchError_sharedDelay(k, err) ==
  /\ onFailCalls' = [onFailCalls EXCEPT ![k] = Append(@, err)]
  /\ timers' = [timers EXCEPT ![k] = @ + 1]
  /\ scheduled' = [scheduled EXCEPT ![k] = Append(@, restartDelay[k])]
  /\ restartDelay' = [j \in DOMAIN restartDelay |->
                        Min(restartDelay[k] * backOffFactor, maxRestartTimeout)]

\* onWatchError: onFail(err) is awaited (handleWatchError only logs), the
\* timer is armed with the current delay, then the delay is escalated
onWatchError(k, err) ==
  /\ onFailCalls' = [onFailCalls EXCEPT ![k] = Append(@, err)]
  /\ timers' = [timers EXCEPT ![k] = @ + 1]
  /\ scheduled' = [scheduled EXCEPT ![k] = Append(@, restartDelay[k])]
  /\ restartDelay' = [restartDelay EXCEPT ![k] = Min(@ * backOffFactor, maxRestartTimeout)]

\* start() -> init() -> watchResource(...) -> restartWatch({start: true})
Start(k) ==
  /\ running = "none"
  /\ ~started[k]
  /\ started' = [started EXCEPT ![k] = TRUE]
  /\ restartWatch(k)
  /\ UNCHANGED <<abortControllers, restartDelay, timers, scheduled, onFailCalls, nFailures,
                 stopped, queueVars, running, handlers, mgrVars, nEvents, nSyncs, call, httpVars>>

\* watcher.watch resolving with the delay set back to its initial value
WatchResolves_resetsDelay(i) ==
  /\ running = "none"
  /\ subs[i].st = "pending"
  /\ subs' = [subs EXCEPT ![i].st = "open"]
  /\ abortControllers' = Append(abortControllers, i)
  /\ restartDelay' = [restartDelay EXCEPT ![subs[i].kind] = restartTimeout]
  /\ UNCHANGED <<timers, scheduled, onFailCalls, started, nFailures,
                 stopped, queueVars, running, handlers, mgrVars, nEvents, nSyncs, call, httpVars>>

\* watcher.watch resolves: the controller is pushed
WatchResolves(i) ==
  /\ running = "none"
  /\ subs[i].st = "pending"
  /\ subs' = [subs EXCEPT ![i].st = "open"]
  /\ abortControllers' = Append(abortControllers, i)
  /\ UNCHANGED <<restartDelay, timers, scheduled, onFailCalls, started, nFailures,
                 stopped, queueVars, running, handlers, mgrVars, nEvents, nSyncs, call, httpVars>>

\* watcher.watch rejects: the catch block calls onWatchError()
WatchRejects(i) ==
  /\ running = "none"
  /\ subs[i].st = "pending"
  /\ nFailures < MaxFailures
  /\ nFailures' = nFailures + 1
  /\ subs' = [subs EXCEPT ![i].st = "closed"]
  /\ onWatchError(subs[i].kind, None)
  /\ UNCHANGED <<abortControllers, started,
                 stopped, queueVars, running, handlers, mgrVars, nEvents, nSyncs, call, httpVars>>

\* the done callback of an open watch: onWatchError(err)
WatchFails(i) ==
  /\ running = "none"
  /\ subs[i].st = "open"
  /\ ~subs[i].aborted
  /\ nFailures < MaxFailures
  /\ nFailures' = nFailures + 1
  /\ subs' = [subs EXCEPT ![i].st = "closed"]
  /\ onWatchError(subs[i].kind, "err")
  /\ UNCHANGED <<abortControllers, started,
                 stopped, queueVars, running, handlers, mgrVars, nEvents, nSyncs, call, httpVars>>

\* the timer armed by onWatchError fires: restartWatch()
TimerFires(k) ==
  /\ running = "none"
  /\ timers[k] > 0
  /\ timers' = [timers EXCEPT ![k] = @ - 1]
  /\ restartWatch(k)
  /\ UNCHANGED <<abortControllers, restartDelay, scheduled, onFailCalls, started, nFailures,
                 stopped, queueVars, running, handlers, mgrVars, nEvents, nSyncs, call, httpVars>>

\* stop() leaving the queue as it is
Stop_keepQueue ==
  /\ running = "none"
  /\ ~stopped
  /\ stopped' = TRUE
  /\ subs' = [i \in DOMAIN subs |->
               IF \E j \in DOMAIN abortControllers : abortControllers[j] = i
               THEN [subs[i] EXCEPT !.aborted = TRUE] ELSE subs[i]]
  /\ abortControllers' = <<>>
  /\ isProcessingQueue' = FALSE
  /\ UNCHANGED <<restartDelay, timers, scheduled, onFailCalls, started, nFailures,
                 eventQueue, running, handlers, mgrVars, nEvents, nSyncs, call, httpVars>>

\* stop()
Stop ==
  /\ running = "none"
  /\ ~stopped
  /\ stopped' = TRUE
  /\ subs' = [i \in DOMAIN subs |->
               IF \E j \in DOMAIN abortControllers : abortControllers[j] = i
               THEN [subs[i] EXCEPT !.aborted = TRUE] ELSE subs[i]]
  /\ abortControllers' = <<>>
  /\ eventQueue' = <<>>
  /\ isProcessingQueue' = FALSE
  /\ UNCHANGED <<restartDelay, timers, scheduled, onFailCalls, started, nFailures,
                 running, handlers, mgrVars, nEvents, nSyncs, call, httpVars>>

\* onWatchEvent passing every phase on
onWatchEvent_unfiltered(i, phase, apiObj) ==
  /\ running = "none"
  /\ subs[i].st = "open"
  /\ ~subs[i].aborted
  /\ nEvents' = nEvents + 1
  /\ eventQueue' = Append(eventQueue,
                      [seq |-> nEvents + 1, type |-> phase, object |-> apiObj])
  /\ IF ~isProcessingQueue
     THEN isProcessingQueue' = TRUE /\ running' = "loop"
     ELSE UNCHANGED <<isProcessingQueue, running>>
  /\ UNCHANGED <<subVars, stopped, handlers, mgrVars, nSyncs, call, httpVars>>

\* onWatchEvent followed by enqueueEvent; processQueue runs up to its
\* while test when no drain loop is marked active
onWatchEvent(i, phase, apiObj) ==
  /\ running = "none"
  /\ subs[i].st = "open"
  /\ ~subs[i].aborted
  /\ nEvents' = nEvents + 1
  /\ IF phase \notin ResourceEventType
     THEN UNCHANGED <<queueVars, running>>
     ELSE /\ eventQueue' = Append(eventQueue,
                              [seq |-> nEvents + 1, type |-> phase, object |-> apiObj])
          /\ IF ~isProcessingQueue
             THEN isProcessingQueue' = TRUE /\ running' = "loop"
             ELSE UNCHANGED <<isProcessingQueue, running>>
  /\ UNCHANGED <<subVars, stopped, handlers, mgrVars, nSyncs, call, httpVars>>

\* processQueue: the while test fails, the loop ends
LoopExit ==
  /\ running = "loop"
  /\ eventQueue = <<>>
  /\ isProcessingQueue' = FALSE
  /\ running' = "none"
  /\ UNCHANGED <<subVars, stopped, eventQueue, handlers, mgrVars, nEvents, nSyncs, call, httpVars>>

\* processQueue calling onEvent for the head of the queue without
\* removing it
Dequeue_peek ==
  /\ running = "loop"
  /\ eventQueue # <<>>
  /\ handlers' = handlers \cup {[event |-> Head(eventQueue), pc |-> "run"]}
  /\ running' = "handler"
  /\ UNCHANGED <<subVars, stopped, queueVars, mgrVars, nEvents, nSyncs, call, httpVars>>

\* processQueue: shift() and the call of onEvent(event)
Dequeue ==
  /\ running = "loop"
  /\ eventQueue # <<>>
  /\ eventQueue' = Tail(eventQueue)
  /\ handlers' = handlers \cup {[event |-> Head(eventQueue), pc |-> "run"]}
  /\ running' = "handler"
  /\ UNCHANGED <<subVars, stopped, isProcessingQueue, mgrVars, nEvents, nSyncs, call, httpVars>>

\* ------------------------------------------------------- handler, part 1
NoLast ==
  [seq |-> 0, name |-> None, event |-> NoEntry, refined |-> None, op |-> None,
   cached |-> NoEntry, update |-> NoEntry, res |-> None, post |-> NoEntry]

Completed(event, op, cached, res, post) ==
  [seq |-> event.seq, name |-> event.object.name, event |-> event,
   refined |-> getRefinedEventType(event), op |-> op, cached |-> cached,
   update |-> ResourceUpdate(event.object), res |-> res, post |-> post]

\* processQueue letting the rejection of onEvent(event) escape
afterOnEvent_uncaught(op) == IF op = "throw" THEN "none" ELSE "loop"

\* the continuation that is ready when onEvent(event) has settled: a
\* rejection is swallowed by the try/catch of VopsOperator.handleEvent and
\* of processQueue, and the while loop goes on
afterOnEvent(op) == "loop"

\* initializeCache deriving deploymentInProgress from the first snapshot
initializeCache_derived(update) ==
  CacheEntry(update, MockTimestamp, <<>>, isDeploymentInProgress(update))

\* initializeCache
initializeCache(update) == CacheEntry(update, MockTimestamp, <<>>, FALSE)

\* onEvent(event) up to its first Slack call: VopsOperator.handleEvent,
\* BaseResourceManager.handleEvent, syncResource, handleResourceUpdate and
\* the synchronous part of startNewDeployment / updateExistingDeployment
HandlerRun(h) ==
  /\ running = "handler"
  /\ h.pc = "run"
  /\ LET event == h.event
         name == event.object.name
         update == ResourceUpdate(event.object)
         cachedResource == resourceCacheMap[name]
         op == Dispatch(event, resourceCacheMap)
     IN  CASE op = "create" ->
                /\ handlers' = (handlers \ {h}) \cup
                     {[event |-> event, pc |-> "create", cached |-> cachedResource,
                       text |-> generateChangesString(cachedResource, update),
                       ts |-> None]}
                /\ running' = "none"
                /\ UNCHANGED mgrVars
           [] op = "update" ->
                /\ handlers' = (handlers \ {h}) \cup
                     {[event |-> event, pc |-> "update", cached |-> cachedResource,
                       text |-> mergeChanges(cachedResource.persistentChanges,
                                             generateChangesString(cachedResource, update)),
                       ts |-> cachedResource.lastMessageTs]}
                /\ running' = "none"
                /\ UNCHANGED mgrVars
           [] op = "init" ->
                /\ resourceCacheMap' = [resourceCacheMap EXCEPT ![name] = initializeCache(update)]
                /\ last' = Completed(event, op, cachedResource, None, initializeCache(update))
                /\ owners' = [owners EXCEPT ![name] = @ \cup {event.object.namespace}]
                /\ handlers' = handlers \ {h}
                /\ running' = afterOnEvent(op)
                /\ UNCHANGED nextTs
           [] OTHER ->
                /\ last' = Completed(event, op, cachedResource, None, cachedResource)
                /\ handlers' = handlers \ {h}
                /\ running' = afterOnEvent(op)
                /\ UNCHANGED <<resourceCacheMap, nextTs, owners>>
  /\ UNCHANGED <<subVars, stopped, queueVars, nEvents, nSyncs, call, httpVars>>

\* ------------------------------------------------------- handler, part 2
\* startNewDeployment keeping the text of the cycle before
NotifierReturn_mergeOnCreate(h, res) ==
  /\ running = "none"
  /\ h.pc \in {"create", "update"}
  /\ res = "ok" /\ h.pc = "update" => h.ts \notin {MockTimestamp, MockTimestampUpdated}
  /\ LET event == h.event
         name == event.object.name
         update == ResourceUpdate(event.object)
         lastMessageTs ==
           IF h.pc = "create"
           THEN (IF res = "ok" THEN Ts(nextTs) ELSE MockTimestamp)
           ELSE (IF res = "ok" THEN h.ts ELSE MockTimestampUpdated)
         entry == CacheEntry(update, lastMessageTs,
                             IF h.pc = "create"
                             THEN mergeChanges(h.cached.persistentChanges, h.text)
                             ELSE h.text,
                             IF h.pc = "create" THEN TRUE ELSE isDeploymentInProgress(update))
     IN  /\ resourceCacheMap' = [resourceCacheMap EXCEPT ![name] = entry]
         /\ nextTs' = IF h.pc = "create" /\ res = "ok" THEN nextTs + 1 ELSE nextTs
         /\ owners' = [owners EXCEPT ![name] = @ \cup {event.object.namespace}]
         /\ last' = Completed(event, h.pc, h.cached, res, entry)
  /\ handlers' = handlers \ {h}
  /\ running' = afterOnEvent(h.pc)
  /\ UNCHANGED <<subVars, stopped, queueVars, nEvents, nSyncs, call, httpVars>>

\* the deployment functions leaving the cache alone when the call failed
NotifierReturn_skipOnFailure(h, res) ==
  /\ running = "none"
  /\ h.pc \in {"create", "update"}
  /\ res = "ok" /\ h.pc = "update" => h.ts \notin {MockTimestamp, MockTimestampUpdated}
  /\ LET event == h.event
         name == event.object.name
         update == ResourceUpdate(event.object)
         entry == IF res = "fail" THEN h.cached
                  ELSE CacheEntry(update, IF h.pc = "create" THEN Ts(nextTs) ELSE h.ts, h.text,
                                  IF h.pc = "create" THEN TRUE ELSE isDeploymentInProgress(update))
     IN  /\ resourceCacheMap' = [resourceCacheMap EXCEPT ![name] = entry]
         /\ nextTs' = IF h.pc = "create" /\ res = "ok" THEN nextTs + 1 ELSE nextTs
         /\ owners' = [owners EXCEPT ![name] = @ \cup {event.object.namespace}]
         /\ last' = Completed(event, h.pc, h.cached, res, entry)
  /\ handlers' = handlers \ {h}
  /\ running' = afterOnEvent(h.pc)
  /\ UNCHANGED <<subVars, stopped, queueVars, nEvents, nSyncs, call, httpVars>>

\* the Slack call returns (res = "ok": a response with a ts; "fail": the
\* call threw or answered without a ts); startNewDeployment or
\* updateExistingDeployment writes the cache and the handler completes
NotifierReturn(h, res) ==
  /\ running = "none"
  /\ h.pc \in {"create", "update"}
  /\ res = "ok" /\ h.pc = "update" => h.ts \notin {MockTimestamp, MockTimestampUpdated}
  /\ LET event == h.event
         name == event.object.name
         update == ResourceUpdate(event.object)
         lastMessageTs ==
           IF h.pc = "create"
           THEN (IF res = "ok" THEN Ts(nextTs) ELSE MockTimestamp)
           ELSE (IF res = "ok" THEN h.ts ELSE MockTimestampUpdated)
         deploymentInProgress ==
           IF h.pc = "create" THEN TRUE ELSE isDeploymentInProgress(update)
         entry == CacheEntry(update, lastMessageTs, h.text, deploymentInProgress)
     IN  /\ resourceCacheMap' = [resourceCacheMap EXCEPT ![name] = entry]
         /\ nextTs' = IF h.pc = "create" /\ res = "ok" THEN nextTs + 1 ELSE nextTs
         /\ owners' = [owners EXCEPT ![name] = @ \cup {event.object.namespace}]
         /\ last' = Completed(event, h.pc, h.cached, res, entry)
  /\ handlers' = handlers \ {h}
  /\ running' = afterOnEvent(h.pc)
  /\ UNCHANGED <<subVars, stopped, queueVars, nEvents, nSyncs, call, httpVars>>

\* ------------------------------------------------------------ mergeChanges
NoCall == [fn |-> None]

\* the lines a change text is made of
TextLines == { <<"+", 2, "  targetRevision:", rev>> : rev \in Revisions }

RECURSIVE Texts(_)
\* the change texts of at most n lines
Texts(n) ==
  IF n = 0 THEN {<<>>}
  ELSE Texts(n - 1) \cup {Append(t, l) : t \in {u \in Texts(n - 1) : Len(u) = n - 1},
                                          l \in TextLines}

\* mergeChanges(existingChanges, newChanges) called on its own
MergeChanges(existingChanges, newChanges) ==
  /\ call' = [fn |-> "mergeChanges", existingChanges |-> existingChanges,
              newChanges |-> newChanges,
              result |-> mergeChanges(existingChanges, newChanges)]
  /\ UNCHANGED <<subVars, stopped, queueVars, running, handlers, mgrVars, nEvents, nSyncs,
                 httpVars>>

\* generateChangesString(cache, update) called on its own, up to its
\* call of generateReadableDiff: the change set and the diff options
GenerateChangesString(cacheObject, updateObject) ==
  /\ call' = [fn |-> "generateChangesString", cacheObject |-> cacheObject,
              updateObject |-> updateObject,
              changesObject |-> filterChanges(updateObject, cacheObject),
              options |-> diffOptions(cacheObject, updateObject)]
  /\ UNCHANGED <<subVars, stopped, queueVars, running, handlers, mgrVars, nEvents, nSyncs,
                 httpVars>>

\* ----------------------------------------------------------------- syncAll
\* the cron job of a resource registered with syncOptions.cronPattern
\* fires (croner's protect option skips a tick while the run before is
\* still in progress): syncAll() up to its await of listCustomResources
CronFires(k) ==
  /\ running = "none"
  /\ started[k]
  /\ \E i \in DOMAIN subs : subs[i].kind = k /\ subs[i].st # "pending"
  /\ nSyncs < MaxSyncAllRuns
  /\ ~\E h \in handlers : h.pc \in {"sync-list", "sync-run", "sync-create", "sync-update"}
  /\ nSyncs' = nSyncs + 1
  /\ handlers' = handlers \cup {[pc |-> "sync-list"]}
  /\ UNCHANGED <<subVars, stopped, queueVars, running, mgrVars, nEvents, call, httpVars>>

\* listCustomResources returns the objects of the kind
ListReturns(h, k8sObjects) ==
  /\ running = "none"
  /\ h.pc = "sync-list"
  /\ handlers' = (handlers \ {h}) \cup {[pc |-> "sync-run", rest |-> k8sObjects]}
  /\ running' = "syncAll"
  /\ UNCHANGED <<subVars, stopped, queueVars, mgrVars, nEvents, nSyncs, call, httpVars>>

\* one turn of the for loop of syncAll: syncResource(object) up to its
\* Slack call, or to its end; a rejection ends syncAll and is logged by
\* the catch option of the cron job
SyncAllStep(h) ==
  /\ running = "syncAll"
  /\ h.pc = "sync-run"
  /\ IF h.rest = <<>>
     THEN /\ handlers' = handlers \ {h}
          /\ running' = "none"
          /\ UNCHANGED mgrVars
     ELSE LET object == Head(h.rest)
              name == object.name
              update == ResourceUpdate(object)
              cachedResource == resourceCacheMap[name]
              op == syncResource(object, resourceCacheMap)
          IN  CASE op = "create" ->
                     /\ handlers' = (handlers \ {h}) \cup
                          {[pc |-> "sync-create", rest |-> Tail(h.rest), object |-> object,
                            cached |-> cachedResource,
                            text |-> generateChangesString(cachedResource, update),
                            ts |-> None]}
                     /\ running' = "none"
                     /\ UNCHANGED mgrVars
                [] op = "update" ->
                     /\ handlers' = (handlers \ {h}) \cup
                          {[pc |-> "sync-update", rest |-> Tail(h.rest), object |-> object,
                            cached |-> cachedResource,
                            text |-> mergeChanges(cachedResource.persistentChanges,
                                                  generateChangesString(cachedResource, update)),
                            ts |-> cachedResource.lastMessageTs]}
                     /\ running' = "none"
                     /\ UNCHANGED mgrVars
                [] op = "init" ->
                     /\ resourceCacheMap' =
                          [resourceCacheMap EXCEPT ![name] = initializeCache(update)]
                     /\ owners' = [owners EXCEPT ![name] = @ \cup {object.namespace}]
                     /\ handlers' = (handlers \ {h}) \cup {[h EXCEPT !.rest = Tail(@)]}
                     /\ UNCHANGED <<running, nextTs, last>>
                [] op = "throw" ->
                     /\ handlers' = handlers \ {h}
                     /\ running' = "none"
                     /\ UNCHANGED mgrVars
                [] OTHER ->
                     /\ handlers' = (handlers \ {h}) \cup {[h EXCEPT !.rest = Tail(@)]}
                     /\ UNCHANGED <<running, mgrVars>>
  /\ UNCHANGED <<subVars, stopped, queueVars, nEvents, nSyncs, call, httpVars>>

\* the Slack call of a syncResource of syncAll returns: the cache is
\* written and the for loop goes on
SyncAllNotifierReturn(h, res) ==
  /\ running = "none"
  /\ h.pc \in {"sync-create", "sync-update"}
  /\ res = "ok" /\ h.pc = "sync-update" => h.ts \notin {MockTimestamp, MockTimestampUpdated}
  /\ LET name == h.object.name
         update == ResourceUpdate(h.object)
         lastMessageTs ==
           IF h.pc = "sync-create"
           THEN (IF res = "ok" THEN Ts(nextTs) ELSE MockTimestamp)
           ELSE (IF res = "ok" THEN h.ts ELSE MockTimestampUpdated)
         deploymentInProgress ==
           IF h.pc = "sync-create" THEN TRUE ELSE isDeploymentInProgress(update)
     IN  /\ resourceCacheMap' =
              [resourceCacheMap EXCEPT ![name] =
                 CacheEntry(update, lastMessageTs, h.text, deploymentInProgress)]
         /\ nextTs' = IF h.pc = "sync-create" /\ res = "ok" THEN nextTs + 1 ELSE nextTs
         /\ owners' = [owners EXCEPT ![name] = @ \cup {h.object.namespace}]
  /\ handlers' = (handlers \ {h}) \cup {[pc |-> "sync-run", rest |-> h.rest]}
  /\ running' = "syncAll"
  /\ UNCHANGED <<subVars, stopped, queueVars, last, nEvents, nSyncs, call, httpVars>>

\* ------------------------------------------------------ HealthCheckServer
MAX_SIMULTANEOUS_CONNECTIONS == 5

\* what the middleware chain did with a request: the status of the answer
\* the client got, whether connectionLimiter counted it, whether
\* healthCheckHandler was called for it, and whether its 'finish' event
\* has fired
Response(status, counted, handled) ==
  [status |-> status, counted |-> counted, handled |-> handled, finished |-> FALSE]

\* connectionLimiter: the answer it sends, if any, the new count, and
\* whether it calls next().  The 503 branch does not return.
connectionLimiter(active) ==
  [status |-> IF active >= MAX_SIMULTANEOUS_CONNECTIONS THEN 503 ELSE 0,
   active |-> active + 1,
   next   |-> TRUE]

\* healthCheckHandler: res.status(200).json(...); when the answer has been
\* sent already setHeader throws and the first answer stands
healthCheckHandler(status) == IF status = 0 THEN 200 ELSE status

\* a GET /health goes through the chain of initialize(): rateLimit, which
\* either answers 429 or calls next(), connectionLimiter, and the route
Request(limited) ==
  /\ running = "none"
  /\ Len(responses) < MaxRequests
  /\ IF limited
     THEN /\ responses' = Append(responses, Response(429, FALSE, FALSE))
          /\ UNCHANGED activeConnections
     ELSE LET lim == connectionLimiter(activeConnections)
          IN  /\ activeConnections' = lim.active
              /\ responses' = Append(responses,
                   Response(IF lim.next THEN healthCheckHandler(lim.status) ELSE lim.status,
                            TRUE, lim.next))
  /\ UNCHANGED <<subVars, stopped, queueVars, running, handlers, mgrVars, nEvents, nSyncs,
                 call>>

\* the 'finish' event of a response connectionLimiter has counted
Finish(i) ==
  /\ running = "none"
  /\ responses[i].counted
  /\ ~responses[i].finished
  /\ responses' = [responses EXCEPT ![i].finished = TRUE]
  /\ activeConnections' = activeConnections - 1
  /\ UNCHANGED <<subVars, stopped, queueVars, running, handlers, mgrVars, nEvents, nSyncs,
                 call>>

\* --------------------------------------------------------- specifications
Init ==
  /\ subs = <<>>
  /\ abortControllers = <<>>
  /\ restartDelay = [k \in Kinds |-> restartTimeout]
  /\ timers = [k \in Kinds |-> 0]
  /\ scheduled = [k \in Kinds |-> <<>>]
  /\ onFailCalls = [k \in Kinds |-> <<>>]
  /\ started = [k \in Kinds |-> FALSE]
  /\ stopped = FALSE
  /\ eventQueue = <<>>
  /\ isProcessingQueue = FALSE
  /\ running = "none"
  /\ handlers = {}
  /\ resourceCacheMap = [n \in Names |-> NoEntry]
  /\ nextTs = 1
  /\ owners = [n \in Names |-> {}]
  /\ nEvents = 0
  /\ nSyncs = 0
  /\ call = NoCall
  /\ nFailures = 0
  /\ last = NoLast
  /\ activeConnections = 0
  /\ responses = <<>>

Drain ==
  \/ LoopExit
  \/ Dequeue
  \/ \E h \in handlers : HandlerRun(h)
  \/ \E h \in handlers, res \in {"ok", "fail"} : NotifierReturn(h, res)

\* the operator with its subscriptions, back-off timers and stop()
WatchEvent ==
  /\ nEvents < MaxEvents
  /\ \E i \in DOMAIN subs, phase \in Phases, apiObj \in OperatorObjects :
        onWatchEvent(i, phase, apiObj)

Next ==
  \/ \E k \in Kinds : Start(k)
  \/ \E i \in DOMAIN subs : WatchResolves(i)
  \/ \E i \in DOMAIN subs : WatchRejects(i)
  \/ \E i \in DOMAIN subs : WatchFails(i)
  \/ \E k \in Kinds : TimerFires(k)
  \/ Stop
  \/ WatchEvent
  \/ Drain

Spec == Init /\ [][Next]_vars

\* one healthy subscription delivering the events of a deployment, each
\* after the handler of the one before has completed
WatchEventManager ==
  /\ nEvents < MaxUpdates
  /\ handlers = {}
  /\ \E i \in DOMAIN subs, d \in Deliveries :
        \E apiObj \in ManagerObjects(d[2]) : onWatchEvent(i, d[1], apiObj)

NextManager ==
  \/ \E k \in Kinds : Start(k)
  \/ \E i \in DOMAIN subs : WatchResolves(i)
  \/ WatchEventManager
  \/ Drain

SpecManager == Init /\ [][NextManager]_vars

\* the reconnect loop under the scheduling of Node: a timer whose delay
\* has elapsed fires, a ready continuation runs and a Slack call returns
WatchEventReconnect ==
  /\ nEvents < MaxReconnectEvents
  /\ \E i \in DOMAIN subs, phase \in Phases, apiObj \in OperatorObjects :
        onWatchEvent(i, phase, apiObj)

NextReconnect ==
  \/ \E k \in Kinds : Start(k)
  \/ \E i \in DOMAIN subs : WatchResolves(i)
  \/ \E i \in DOMAIN subs : WatchRejects(i)
  \/ \E i \in DOMAIN subs : WatchFails(i)
  \/ \E k \in Kinds : TimerFires(k)
  \/ Stop
  \/ WatchEventReconnect
  \/ Drain

SpecReconnect ==
  /\ Init /\ [][NextReconnect]_vars
  /\ WF_vars(\E k \in Kinds : TimerFires(k))
  /\ WF_vars(Drain)

\* one healthy subscription and the drain loop under the scheduling of
\* Node; stop() is not called
WatchEventSequencer ==
  /\ nEvents < MaxSequencerEvents
  /\ \E i \in DOMAIN subs, phase \in Phases, apiObj \in SequencerObjects :
        onWatchEvent(i, phase, apiObj)

NextSequencer ==
  \/ \E k \in Kinds : Start(k)
  \/ \E i \in DOMAIN subs : WatchResolves(i)
  \/ WatchEventSequencer
  \/ Drain

SpecSequencer ==
  /\ Init /\ [][NextSequencer]_vars
  /\ WF_vars(Drain)

\* one healthy subscription delivering objects in every stage of their
\* life
WatchEventClassifier ==
  /\ nEvents < MaxClassifierEvents
  /\ \E i \in DOMAIN subs, phase \in Phases, apiObj \in ClassifierObjects :
        onWatchEvent(i, phase, apiObj)

NextClassifier ==
  \/ \E k \in Kinds : Start(k)
  \/ \E i \in DOMAIN subs : WatchResolves(i)
  \/ WatchEventClassifier
  \/ Drain

SpecClassifier == Init /\ [][NextClassifier]_vars

\* one healthy cluster-wide subscription
WatchEventIdentity ==
  /\ nEvents < MaxIdentityEvents
  /\ handlers = {}
  /\ \E i \in DOMAIN subs, phase \in Phases, apiObj \in IdentityObjects :
        onWatchEvent(i, phase, apiObj)

NextIdentity ==
  \/ \E k \in Kinds : Start(k)
  \/ \E i \in DOMAIN subs : WatchResolves(i)
  \/ WatchEventIdentity
  \/ Drain

SpecIdentity == Init /\ [][NextIdentity]_vars

\* one healthy subscription delivering an application whose spec is
\* serialised with its keys in varying order
WatchEventDetector ==
  /\ nEvents < MaxDetectorEvents
  /\ handlers = {}
  /\ \E i \in DOMAIN subs, phase \in {"ADDED", "MODIFIED"}, apiObj \in DetectorObjects :
        onWatchEvent(i, phase, apiObj)

NextDetector ==
  \/ \E k \in Kinds : Start(k)
  \/ \E i \in DOMAIN subs : WatchResolves(i)
  \/ WatchEventDetector
  \/ Drain

SpecDetector == Init /\ [][NextDetector]_vars

\* one healthy subscription and the cron job of the kind; the namespace
\* holds one application, which the list call returns in any of its states
WatchEventSyncAll ==
  /\ nEvents < MaxSyncAllEvents
  /\ \E i \in DOMAIN subs, phase \in Phases, apiObj \in SyncAllObjects :
        onWatchEvent(i, phase, apiObj)

SyncAll ==
  \/ \E k \in Kinds : CronFires(k)
  \/ \E h \in handlers, apiObj \in SyncAllObjects : ListReturns(h, <<apiObj>>)
  \/ \E h \in handlers : SyncAllStep(h)
  \/ \E h \in handlers, res \in {"ok", "fail"} : SyncAllNotifierReturn(h, res)

NextSyncAll ==
  \/ \E k \in Kinds : Start(k)
  \/ \E i \in DOMAIN subs : WatchResolves(i)
  \/ WatchEventSyncAll
  \/ Drain
  \/ SyncAll

SpecSyncAll == Init /\ [][NextSyncAll]_vars

\* mergeChanges applied to every pair of change texts
NextMerge ==
  \E existingChanges, newChanges \in Texts(MaxTextLines) :
     MergeChanges(existingChanges, newChanges)

SpecMerge == Init /\ [][NextMerge]_vars

\* generateChangesString applied once to a pair of helm application specs
NextChanges ==
  /\ call = NoCall
  /\ \E cacheObject, updateObject \in DetailedSpecs :
        GenerateChangesString(cacheObject, updateObject)

SpecChanges == Init /\ [][NextChanges]_vars

\* one subscription, events of known phases and stop() at any time
\* between two jobs, under the scheduling of Node
WatchEventStop ==
  /\ nEvents < MaxStopEvents
  /\ \E i \in DOMAIN subs, phase \in ResourceEventType, apiObj \in SequencerObjects :
        onWatchEvent(i, phase, apiObj)

NextStop ==
  \/ \E k \in Kinds : Start(k)
  \/ \E i \in DOMAIN subs : WatchResolves(i)
  \/ WatchEventStop
  \/ Stop
  \/ Drain

SpecStop ==
  /\ Init /\ [][NextStop]_vars
  /\ WF_vars(Drain)

\* the health-check server receiving requests
NextHealth ==
  \/ \E limited \in BOOLEAN : Request(limited)
  \/ \E i \in DOMAIN responses : Finish(i)

SpecHealth == Init /\ [][NextHealth]_vars

\* an operator constructed with two resources: init() sets them up one
\* after the other, each watchResource call with its own delay and timers
resources == <<"applications", "applicationsets">>

ResourceKinds == {resources[n] : n \in DOMAIN resources}

\* the first watch of the kind has resolved or rejected, so the await of
\* setupResourceWatcher has returned
WatcherSetUp(k) ==
  \E i \in DOMAIN subs : subs[i].kind = k /\ subs[i].st # "pending"

\* init(): setupResource of the n-th resource, after the ones before it
setupResource(n) ==
  /\ \A m \in 1..(n - 1) : started[resources[m]] /\ WatcherSetUp(resources[m])
  /\ Start(resources[n])

InitResources ==
  /\ subs = <<>>
  /\ abortControllers = <<>>
  /\ restartDelay = [k \in ResourceKinds |-> restartTimeout]
  /\ timers = [k \in ResourceKinds |-> 0]
  /\ scheduled = [k \in ResourceKinds |-> <<>>]
  /\ onFailCalls = [k \in ResourceKinds |-> <<>>]
  /\ started = [k \in ResourceKinds |-> FALSE]
  /\ stopped = FALSE
  /\ eventQueue = <<>>
  /\ isProcessingQueue = FALSE
  /\ running = "none"
  /\ handlers = {}
  /\ resourceCacheMap = [n \in Names |-> NoEntry]
  /\ nextTs = 1
  /\ owners = [n \in Names |-> {}]
  /\ nEvents = 0
  /\ nSyncs = 0
  /\ call = NoCall
  /\ nFailures = 0
  /\ last = NoLast
  /\ activeConnections = 0
  /\ responses = <<>>

NextResources ==
  \/ \E n \in DOMAIN resources : setupResource(n)
  \/ \E i \in DOMAIN subs : WatchResolves(i)
  \/ \E i \in DOMAIN subs : WatchRejects(i)
  \/ \E i \in DOMAIN subs : WatchFails(i)
  \/ \E k \in ResourceKinds : TimerFires(k)

SpecResources ==
  /\ InitResources /\ [][NextResources]_vars
  /\ WF_vars(\E n \in DOMAIN resources : setupResource(n))

\* ------------------------------------------------------------ properties
\* the handler that completed last went through handleResourceUpdate
Updated == last.op \in {"create", "update", "none"}

\* the rendered diff of the update the last handler saw against its cache
LastChanges == generateChangesString(last.cached, last.update)

\* the last update differs from the snapshot cached at its arrival
LastDiffers == hasStatusChanged(last.cached, last.update) \/ LastChanges # <<>>

\* C1: at any time at most one handler invocation is in progress (started
\* and not yet completed), whatever the interleaving of watch callbacks,
\* handler completions and stop().
C1_AtMostOneHandler == Cardinality(handlers) <= 1

\* C2: handlers start in delivery order (nothing still queued was delivered
\* before an event whose handler has started, and the queue is in delivery
\* order), and of two events of the same resource the handler of the
\* earlier one completes before the handler of the later one starts.
C2_HandledInOrder ==
  /\ \A i, j \in DOMAIN eventQueue : i < j => eventQueue[i].seq < eventQueue[j].seq
  /\ \A h \in handlers : \A i \in DOMAIN eventQueue : h.event.seq < eventQueue[i].seq
  /\ \A h1, h2 \in handlers :
        h1.event.object.name = h2.event.object.name => h1.event.seq = h2.event.seq

\* C9: after stop() no watch request is ever issued: every subscription
\* was requested before stop().
C9_NoWatchAfterStop == \A i \in DOMAIN subs : ~subs[i].afterStop

\* C10: once stop() has returned, every subscription requested before it
\* that is pending or open has had its abort signal triggered.
C10_StopAbortsAll ==
  stopped =>
    \A i \in DOMAIN subs :
       (~subs[i].afterStop /\ subs[i].st \in {"pending", "open"}) => subs[i].aborted

\* C3: an update that differs from the cached snapshot (in status, in the
\* spec, or both) and arrives while deploymentInProgress is true produces
\* a Notifier update, never a second create, and when both diffs are not
\* empty the accumulated text is the first diff, the timestamp marker, the
\* second diff.
C3_SecondUpdateCoalesced ==
  (Updated /\ last.cached.deploymentInProgress /\ LastDiffers) =>
     /\ last.op = "update"
     /\ (last.cached.persistentChanges # <<>> /\ LastChanges # <<>>) =>
           last.post.persistentChanges =
             last.cached.persistentChanges \o <<Marker>> \o LastChanges

\* C4: for a resource cached as {Synced, Healthy} with no deployment in
\* progress, an update to {OutOfSync, Progressing} with a spec change
\* produces one create and no update, and leaves the entry with the new
\* status, sync and spec, the handle create returned, the diff (which
\* names the new revision) as accumulated text, and deploymentInProgress.
C4_Precondition ==
  /\ Updated
  /\ last.cached.status = Healthy /\ last.cached.sync = Synced
  /\ ~last.cached.deploymentInProgress
  /\ last.update.status = Progressing /\ last.update.sync = OutOfSync
  /\ LastChanges # <<>>

C4_NewDeployment ==
  C4_Precondition =>
     /\ last.op = "create"
     /\ last.post = CacheEntry(last.update,
                        IF last.res = "ok" THEN Ts(nextTs - 1) ELSE MockTimestamp,
                        LastChanges, TRUE)
     /\ resourceCacheMap[last.name] = last.post
     /\ \E i \in DOMAIN last.post.persistentChanges :
           LET line == last.post.persistentChanges[i]
           IN  line[1] = "+" /\ line[Len(line)] = last.update.spec.source.targetRevision

C4_Witness ==
  /\ C4_Precondition
  /\ last.res = "ok"
  /\ resourceCacheMap["app1"].deploymentInProgress
  /\ resourceCacheMap["app1"].lastMessageTs = Ts(1)

\* C5: an update with sync=Synced and health=Healthy handled during a
\* deployment in progress clears deploymentInProgress; and after a cycle
\* has ended the next update that differs from the cache produces a create.
C5_SettledThenNewMessage ==
  /\ (Updated /\ last.cached.deploymentInProgress
        /\ last.update.sync = Synced /\ last.update.status = Healthy) =>
       ~last.post.deploymentInProgress
  /\ (Updated /\ ~last.cached.deploymentInProgress
        /\ last.cached.persistentChanges # <<>> /\ LastDiffers) =>
       last.op = "create"

\* C6: an event whose health, sync and spec equal the cached snapshot
\* produces no create and no update and leaves the cache entry, with its
\* handle, accumulated text and deploymentInProgress, as it was.
C6_Precondition ==
  /\ last.seq > 0
  /\ last.cached # NoEntry
  /\ last.update.status = last.cached.status
  /\ last.update.sync = last.cached.sync
  /\ last.update.spec = last.cached.spec

C6_UnchangedIsNoOp ==
  C6_Precondition =>
     /\ last.op \notin {"create", "update"}
     /\ last.post = last.cached
     /\ resourceCacheMap[last.name] = last.cached

C6_Witness ==
  /\ C6_Precondition
  /\ last.op = "none"
  /\ last.cached.deploymentInProgress
  /\ last.cached.persistentChanges # <<>>

Names_(text, rev) ==
  \E i \in DOMAIN text : text[i][Len(text[i])] = rev

C8_Example ==
  LET first == /\ last.name = "app1" /\ last.cached = NoEntry
               /\ last.op \in {"init", "create", "update", "none"}
               /\ last.update.sync = OutOfSync /\ last.update.status = Progressing
               /\ last.update.spec.source.targetRevision = "v1.1.0"
      second == /\ last.name = "app1" /\ Updated
                /\ last.cached.sync = OutOfSync /\ last.cached.status = Progressing
                /\ last.cached.spec.source.targetRevision = "v1.1.0"
                /\ last.cached.deploymentInProgress
                /\ last.update.sync = OutOfSync /\ last.update.status = Progressing
                /\ last.update.spec.source.targetRevision = "v1.1.1"
      third == /\ last.name = "app1" /\ Updated
               /\ last.cached.deploymentInProgress
               /\ last.cached.spec.source.targetRevision = "v1.1.1"
               /\ last.update.spec.source.targetRevision = "v1.1.1"
               /\ last.update.sync = Synced /\ last.update.status = Healthy
  IN  /\ first => (last.op = "create" /\ last.post.deploymentInProgress)
      /\ second => /\ last.op = "update"
                    /\ last.res = "ok" => last.post.lastMessageTs = last.cached.lastMessageTs
                    /\ Names_(last.post.persistentChanges, "v1.1.0")
                    /\ Names_(last.post.persistentChanges, "v1.1.1")
      /\ third => (last.op = "update" /\ ~last.post.deploymentInProgress)

\* ------------------------------------------------------------ reconnection
RECURSIVE Pow(_, _)
Pow(b, e) == IF e = 0 THEN 1 ELSE b * Pow(b, e - 1)

\* the subscriptions requested for a kind after the one of start()
Restarts(k) ==
  Cardinality({i \in DOMAIN subs : subs[i].kind = k}) - (IF started[k] THEN 1 ELSE 0)

C12_FailureThenReconnect ==
  /\ [](\A k \in Kinds :
          /\ Len(onFailCalls[k]) = Len(scheduled[k])
          /\ Restarts(k) + timers[k] = Len(scheduled[k]))
  /\ \A k \in Kinds : \A n \in 1..MaxFailures :
        (Len(scheduled[k]) >= n) ~> (Restarts(k) >= n)

C12_Witness ==
  \E k \in Kinds :
     /\ Len(onFailCalls[k]) = 2
     /\ onFailCalls[k][1] = None /\ onFailCalls[k][2] = "err"
     /\ Restarts(k) = 2
     /\ ~stopped

\* -------------------------------------------------------------- sequencer
Queued(n) == \E i \in DOMAIN eventQueue : eventQueue[i].seq = n

Started(n) == \E h \in handlers : h.event.seq = n

\* C13: a handler that throws does not stop the drain loop: while events
\* are queued a drain loop is running or waits for its handler, and every
\* queued event, whether it was queued before or after a handler threw,
\* gets its handler started.
C13_ThrowDoesNotStopDrain ==
  /\ [](eventQueue # <<>> => (running # "none" \/ handlers # {}))
  /\ \A n \in 1..MaxSequencerEvents : Queued(n) ~> Started(n)

C13_Witness ==
  /\ last.op = "throw"
  /\ eventQueue # <<>>
  /\ running = "loop"

\* C14: a watch callback with a phase that is not a ResourceEventType is
\* dropped (the queue, the drain loop, the handlers and the cache stay as
\* they are, and no event of such a phase is ever queued or handled), and
\* a callback with a recognized phase appends exactly its event.
C14_UnknownPhaseDropped ==
  /\ [](/\ \A n \in DOMAIN eventQueue : eventQueue[n].type \in ResourceEventType
        /\ \A h \in handlers : h.event.type \in ResourceEventType)
  /\ [][\A i \in DOMAIN subs, phase \in Phases, apiObj \in SequencerObjects :
          onWatchEvent(i, phase, apiObj) =>
            IF phase \notin ResourceEventType
            THEN UNCHANGED <<eventQueue, isProcessingQueue, running, handlers,
                             resourceCacheMap, nextTs, last>>
            ELSE /\ eventQueue' = Append(eventQueue,
                      [seq |-> nEvents', type |-> phase, object |-> apiObj])
                 /\ UNCHANGED <<handlers, resourceCacheMap>>]_vars

\* one callback has been delivered and has left no trace
C14_Witness ==
  /\ nEvents = 1
  /\ eventQueue = <<>> /\ handlers = {} /\ ~isProcessingQueue
  /\ last = NoLast
  /\ resourceCacheMap = [n \in Names |-> NoEntry]

\* C15: getRefinedEventType decides in this order: the raw phase DELETED
\* gives Deleted, also with a deletion timestamp or matching generations;
\* else a deletion timestamp gives Deleting, also with matching
\* generations; else an observed generation that is present and equals
\* the generation gives UpToDate; else the raw phase is returned.
C15_PriorityOrder ==
  last.seq > 0 =>
    LET type == last.event.type
        object == last.event.object
        match == /\ object.observedGeneration # None
                 /\ object.observedGeneration = object.generation
    IN  /\ type = "DELETED" => last.refined = "DELETED"
        /\ (type # "DELETED" /\ object.deletionTimestamp # None) =>
              last.refined = "DELETING"
        /\ (type # "DELETED" /\ object.deletionTimestamp = None /\ match) =>
              last.refined = "UP_TO_DATE"
        /\ (type # "DELETED" /\ object.deletionTimestamp = None /\ ~match) =>
              last.refined = type

C15_Witness ==
  /\ last.seq > 0
  /\ last.event.type = "DELETED"
  /\ last.event.object.deletionTimestamp # None
  /\ last.event.object.observedGeneration = last.event.object.generation
  /\ last.event.object.generation # None
  /\ last.refined = "DELETED"

\* C16: an event of a resource whose spec.source has a directory entry
\* produces no create and no update and writes nothing to the cache, and
\* no cache entry ever holds the snapshot of a directory source: as long
\* as all the events of a name are of that kind the name has no entry.
C16_DirectorySourceIgnored ==
  /\ (last.seq > 0 /\ last.update.spec.source.directory) =>
        /\ last.op \notin {"init", "create", "update"}
        /\ last.post = last.cached
        /\ resourceCacheMap[last.name] = last.cached
  /\ \A n \in Names :
        resourceCacheMap[n] # NoEntry => ~resourceCacheMap[n].spec.source.directory

C16_Witness ==
  /\ last.seq >= 2
  /\ last.update.spec.source.directory
  /\ last.refined \in {"ADDED", "MODIFIED", "UP_TO_DATE"}
  /\ last.op = "ignored"
  /\ resourceCacheMap["app1"] = NoEntry

\* C17: in every cache entry deploymentInProgress is true exactly when the
\* cached state is not both Synced and Healthy.
C17_FlagIsDerived ==
  \A n \in Names :
     resourceCacheMap[n] # NoEntry =>
       (resourceCacheMap[n].deploymentInProgress <=>
          ~(resourceCacheMap[n].sync = Synced /\ resourceCacheMap[n].status = Healthy))

\* C20: a Slack call that fails does not make the handler fail, and the
\* cache entry written after a create or an update has the snapshot of
\* the update, the accumulated text and deploymentInProgress that the
\* call's outcome does not influence.
C20_CommittedTransition ==
  (last.seq > 0 /\ last.op \in {"create", "update"}) =>
     /\ last.res \in {"ok", "fail"}
     /\ resourceCacheMap[last.name] = last.post
     /\ last.post.status = last.update.status
     /\ last.post.sync = last.update.sync
     /\ last.post.spec = last.update.spec
     /\ last.post.persistentChanges =
           IF last.op = "create" THEN LastChanges
           ELSE mergeChanges(last.cached.persistentChanges, LastChanges)
     /\ last.post.deploymentInProgress =
           IF last.op = "create" THEN TRUE ELSE isDeploymentInProgress(last.update)

C20_Witness ==
  /\ last.op = "update" /\ last.res = "fail"
  /\ last.cached.deploymentInProgress
  /\ resourceCacheMap["app1"].status = last.update.status
  /\ resourceCacheMap["app1"].status # last.cached.status
  /\ resourceCacheMap["app1"].lastMessageTs = MockTimestampUpdated
  /\ running = "loop"

\* C18: a cache entry belongs to one resource identity (name and
\* namespace): an entry is written by the handlers of one identity only,
\* and a handler that finds an entry finds the one of its own identity.
C18_OneEntryPerIdentity ==
  /\ \A n \in Names : Cardinality(owners[n]) <= 1
  /\ (last.seq > 0 /\ last.cached # NoEntry) =>
        owners[last.name] = {last.event.object.namespace}

\* C19: when the cache entry of a resource changes, the handler that
\* completed in that step handled an event of that resource: handling an
\* event of resource A changes the entry of no other resource B.
C19_OthersUntouched ==
  [][\A n \in Names, ns \in Namespaces :
       (ns \in owners[n] /\ resourceCacheMap'[n] # resourceCacheMap[n]) =>
          (last'.name = n /\ last'.event.object.namespace = ns)]_vars

\* ------------------------------------------------------- change detector
\* C21: when the cached spec and the spec of an update have the same
\* content with the keys of an object in a different order, the filtered
\* change set is empty, the rendered changes are empty, and an idle
\* resource gets no notification.
C21_KeyOrderIgnored ==
  (Updated /\ deepCompare(Tree(last.cached.spec), Tree(last.update.spec), FALSE)) =>
     /\ filterChanges(Tree(reorganizeSpec(last.update.spec)),
                      Tree(reorganizeSpec(last.cached.spec))) = Obj(<<>>)
     /\ LastChanges = <<>>
     /\ ~last.cached.deploymentInProgress => last.op = "none"

\* ---------------------------------------------------------------- syncAll
\* the invocations that wait for a Slack call for a resource
Suspended(name) ==
  {h \in handlers :
     \/ h.pc \in {"create", "update"} /\ h.event.object.name = name
     \/ h.pc \in {"sync-create", "sync-update"} /\ h.object.name = name}

\* C22: the cache of a resource is read and written by one invocation at
\* a time: syncAll does not run syncResource for a resource while the
\* handler of a watch event of the resource waits for its Slack call (nor
\* the other way round), so no two Slack creates are in flight that were
\* decided on the same cache entry.
C22_SyncAllSerialized ==
  \A n \in Names :
     /\ Cardinality(Suspended(n)) <= 1
     /\ \A h1, h2 \in Suspended(n) :
          (h1.pc \in {"create", "sync-create"} /\ h2.pc \in {"create", "sync-create"}
             /\ h1.cached = h2.cached) => h1 = h2

\* ------------------------------------------------------- deployment cycle
\* C23: for a cached resource with no deployment in progress, an update
\* that differs from the cache in status or in the spec (either alone
\* suffices) produces one create, and the entry gets the handle the create
\* returned, the rendered diff as accumulated text and
\* deploymentInProgress.
C23_IdleDiffersCreates ==
  (Updated /\ ~last.cached.deploymentInProgress /\ LastDiffers) =>
     /\ last.op = "create"
     /\ last.res = "ok" => last.post.lastMessageTs = Ts(nextTs - 1)
     /\ last.post.persistentChanges = LastChanges
     /\ last.post.deploymentInProgress

\* C24: after an Added, Modified or UpToDate event of a resource whose
\* source is not a directory has been handled, the cache entry has the
\* health, sync and spec of that event, also when the event triggered no
\* notification.
C24_SnapshotReplaced ==
  (/\ last.seq > 0
   /\ last.refined \in {"ADDED", "MODIFIED", "UP_TO_DATE"}
   /\ ~last.update.spec.source.directory) =>
     /\ last.post # NoEntry
     /\ last.post.status = last.update.status
     /\ last.post.sync = last.update.sync
     /\ last.post.spec = last.update.spec

\* C25: an update is sent with the handle stored in the cache entry, and
\* the entry keeps that handle after the update, whether the Slack call
\* succeeded, failed or returned no handle.
C25_HandleRetained ==
  (last.seq > 0 /\ last.op = "update") =>
     /\ last.cached.lastMessageTs # None
     /\ last.post.lastMessageTs = last.cached.lastMessageTs

\* C26: the update with Synced and Healthy that ends a deployment leaves
\* the entry with the handle it had and the merged text, and the events
\* that follow without a notification leave handle and text as they are.
C26_SettledKeepsHandleAndText ==
  /\ (/\ Updated /\ last.op = "update" /\ last.cached.deploymentInProgress
      /\ last.update.sync = Synced /\ last.update.status = Healthy) =>
        /\ ~last.post.deploymentInProgress
        /\ last.post.lastMessageTs = last.cached.lastMessageTs
        /\ last.post.persistentChanges =
              mergeChanges(last.cached.persistentChanges, LastChanges)
  /\ (Updated /\ ~last.cached.deploymentInProgress /\ last.op # "create") =>
        /\ last.post.lastMessageTs = last.cached.lastMessageTs
        /\ last.post.persistentChanges = last.cached.persistentChanges
        /\ resourceCacheMap[last.name] = last.post

\* the text of a change log has the text of another as its beginning
StartsWith(text, prefix) ==
  /\ Len(prefix) <= Len(text)
  /\ SubSeq(text, 1, Len(prefix)) = prefix

\* C27: the create that starts a deployment sets the accumulated text to
\* the diff of the triggering update and to nothing else, whatever text
\* the cycle before has left; an update keeps the accumulated text as the
\* beginning of the new text.
C27_TextResetThenAppended ==
  /\ (last.seq > 0 /\ last.op = "create") =>
        /\ last.post.persistentChanges = LastChanges
        /\ \A i \in DOMAIN last.post.persistentChanges :
              last.post.persistentChanges[i] # Marker
        /\ resourceCacheMap[last.name].persistentChanges = LastChanges
  /\ (last.seq > 0 /\ last.op = "update") =>
        /\ StartsWith(last.post.persistentChanges, last.cached.persistentChanges)
        /\ resourceCacheMap[last.name].persistentChanges = last.post.persistentChanges

C27_Witness ==
  /\ last.op = "create"
  /\ ~last.cached.deploymentInProgress
  /\ last.cached.persistentChanges # <<>>
  /\ resourceCacheMap["app1"].persistentChanges = LastChanges
  /\ resourceCacheMap["app1"].persistentChanges # last.cached.persistentChanges
  /\ resourceCacheMap["app1"].deploymentInProgress

\* C28: mergeChanges returns the new changes when the existing ones are
\* empty, the existing ones when the new ones are empty, and otherwise the
\* existing ones, the marker line, the new ones, in this order.
C28_MergeChanges ==
  call.fn = "mergeChanges" =>
     /\ call.existingChanges = <<>> => call.result = call.newChanges
     /\ call.newChanges = <<>> => call.result = call.existingChanges
     /\ (call.existingChanges # <<>> /\ call.newChanges # <<>>) =>
           /\ call.result = call.existingChanges \o <<Marker>> \o call.newChanges
           /\ Len(call.result) = Len(call.existingChanges) + 1 + Len(call.newChanges)
           /\ call.result[Len(call.existingChanges) + 1] = Marker

C28_Witness ==
  /\ call.fn = "mergeChanges"
  /\ call.existingChanges # <<>> /\ call.newChanges # <<>>
  /\ call.existingChanges # call.newChanges
  /\ call.result[1] = call.existingChanges[1]
  /\ call.result[Len(call.result)] = call.newChanges[Len(call.newChanges)]

\* C29: updateSlackMessage is called only for an entry that holds the
\* timestamp of a Slack message: for an entry without one (the create of
\* the cycle failed, or an update before) the handler falls back to a
\* create.
C29_NoUpdateWithoutHandle ==
  /\ \A h \in handlers :
        h.pc = "update" => h.ts \notin {MockTimestamp, MockTimestampUpdated}
  /\ (last.seq > 0 /\ last.op = "update") =>
        last.cached.lastMessageTs \notin {MockTimestamp, MockTimestampUpdated}

\* C30: an event is classified UP_TO_DATE only when the observed
\* generation is present, and an ADDED or MODIFIED event of an object
\* with no observed generation, no generation and no deletion timestamp
\* keeps its raw phase.
C30_UpToDateNeedsObserved ==
  last.seq > 0 =>
    /\ last.refined = "UP_TO_DATE" => last.event.object.observedGeneration # None
    /\ (/\ last.event.type \in {"ADDED", "MODIFIED"}
        /\ last.event.object.observedGeneration = None
        /\ last.event.object.generation = None
        /\ last.event.object.deletionTimestamp = None) =>
          last.refined = last.event.type

C30_Witness ==
  /\ last.seq > 0
  /\ last.event.type = "MODIFIED"
  /\ last.event.object.observedGeneration = None
  /\ last.event.object.generation = None
  /\ last.event.object.deletionTimestamp = None
  /\ last.refined = "MODIFIED"
  /\ last.op \in {"init", "create", "update", "none"}

\* ---------------------------------------------------------------- dispatch
\* C31: a Deleting or Deleted event does not reach syncResource, sends
\* nothing to Slack and leaves the cache as it is; no step removes a cache
\* entry; and the event that follows the deletion of a cached resource
\* under the same name finds the entry the deletion left and is not a
\* first observation.
C31_DeletionKeepsEntry ==
  /\ [](last.refined \in {"DELETING", "DELETED"} =>
          /\ last.op = (IF last.refined = "DELETING" THEN "delete" ELSE "nohandler")
          /\ last.post = last.cached
          /\ resourceCacheMap[last.name] = last.cached)
  /\ [][/\ \A n \in Names : resourceCacheMap[n] # NoEntry => resourceCacheMap'[n] # NoEntry
        /\ (/\ last' # last
            /\ last.refined \in {"DELETING", "DELETED"}
            /\ last.cached # NoEntry
            /\ last'.name = last.name) =>
              (last'.cached = last.cached /\ last'.op # "init")]_vars

C31_Witness ==
  /\ last.refined = "DELETED"
  /\ last.op = "nohandler"
  /\ last.cached # NoEntry
  /\ last.cached.deploymentInProgress
  /\ resourceCacheMap["app1"] = last.cached

\* the entry syncResource leaves for an update, given the entry it found,
\* the branch it took and the outcome of its Slack call
EntryAfter(cached, update, op, res, ts) ==
  CASE op = "init" -> CacheEntry(update, MockTimestamp, <<>>, FALSE)
    [] op = "create" ->
         CacheEntry(update, IF res = "ok" THEN ts ELSE MockTimestamp,
                    generateChangesString(cached, update), TRUE)
    [] op = "update" ->
         CacheEntry(update, IF res = "ok" THEN cached.lastMessageTs ELSE MockTimestampUpdated,
                    mergeChanges(cached.persistentChanges,
                                 generateChangesString(cached, update)),
                    isDeploymentInProgress(update))
    [] OTHER -> cached

\* C32: an event classified Added, Modified or UpToDate is handled by
\* syncResource, and the Slack call and the resulting cache entry depend
\* on the object and the cache entry only, not on which of the three
\* classes the event has.
C32_UpToDateSameSyncPath ==
  (last.seq > 0 /\ last.refined \in {"ADDED", "MODIFIED", "UP_TO_DATE"}) =>
     /\ last.op = syncResource(last.event.object,
                                [n \in Names |-> IF n = last.name THEN last.cached
                                                  ELSE resourceCacheMap[n]])
     /\ last.post = EntryAfter(last.cached, last.update, last.op, last.res, Ts(nextTs - 1))
     /\ resourceCacheMap[last.name] = last.post

C32_Witness ==
  /\ last.refined = "UP_TO_DATE"
  /\ last.op = "create" /\ last.res = "ok"
  /\ resourceCacheMap["app1"].deploymentInProgress
  /\ resourceCacheMap["app1"].lastMessageTs = Ts(nextTs - 1)

\* --------------------------------------------------------------- rendering
\* the keys changed under a path of the change set
ChangedKeys(changesObject, path) ==
  IF path = <<>> THEN Keys(changesObject)
  ELSE IF Head(path) \in Keys(changesObject) /\ isObject(Get(changesObject, Head(path)))
       THEN LET RECURSIVE Below(_, _)
                Below(obj, rest) ==
                  IF rest = <<>> THEN Keys(obj)
                  ELSE IF Head(rest) \in Keys(obj) /\ isObject(Get(obj, Head(rest)))
                       THEN Below(Get(obj, Head(rest)), Tail(rest))
                  ELSE {}
            IN  Below(Get(changesObject, Head(path)), Tail(path))
  ELSE {}

\* C33: the diff is rendered with zero context lines and an empty
\* separator exactly when the only changed top-level key is the source
\* and, in the source, the only changed key is the target revision, or is
\* helm with the image changed in its tag only; every other change set is
\* rendered with the context lines and the separator of a full diff.
C33_TerseOnlyForVersionChange ==
  call.fn = "generateChangesString" =>
    LET terse ==
          /\ ChangedKeys(call.changesObject, <<>>) = {"source"}
          /\ \/ ChangedKeys(call.changesObject, <<"source">>) = {"targetRevision"}
             \/ /\ ChangedKeys(call.changesObject, <<"source">>) = {"helm"}
                /\ ChangedKeys(call.changesObject,
                               <<"source", "helm", "valuesObject", "image">>) = {"tag"}
    IN  call.options = IF terse THEN [contextLines |-> 0, separator |-> ""]
                       ELSE [contextLines |-> 2, separator |-> "........."]

\* C34: filterChanges(update, cached) is empty exactly when the two specs
\* are equal for deepCompare with a missing key taken as undefined.
C34_EmptyIffDeepEqual ==
  call.fn = "generateChangesString" =>
    (Keys(call.changesObject) = {} <=>
       deepCompare(call.updateObject, call.cacheObject, TRUE))


\* C35: the reconnect delay of a watchResource call never decreases: no
\* step lowers it (a watch that opens leaves it as it is), every retry is
\* scheduled with the delay the call held before the failure, and a
\* failure that follows an earlier one, with or without a successful
\* reconnection in between, is scheduled with the escalated delay, which
\* is above the initial one.
C35_DelayNeverDecreases ==
  /\ [][\A k \in Kinds :
          /\ restartDelay'[k] >= restartDelay[k]
          /\ Len(scheduled'[k]) > Len(scheduled[k]) =>
                scheduled'[k][Len(scheduled'[k])] = restartDelay[k]
          /\ (\E i \in DOMAIN subs :
                 subs[i].kind = k /\ subs[i].st = "pending" /\ subs'[i].st = "open")
                => restartDelay'[k] = restartDelay[k]]_vars
  /\ [](\A k \in Kinds : \A n \in DOMAIN scheduled[k] :
          n > 1 => /\ scheduled[k][n] >= scheduled[k][n - 1]
                   /\ scheduled[k][n] > restartTimeout)

\* the first watch failed, the reconnection opened a watch, and that
\* watch failed in turn
C35_Witness ==
  \E k \in Kinds :
     /\ Len(scheduled[k]) = 2
     /\ onFailCalls[k][2] = "err"
     /\ \E i \in DOMAIN subs :
           /\ subs[i].kind = k /\ subs[i].st = "closed"
           /\ \E j \in DOMAIN subs : j < i /\ subs[j].kind = k /\ subs[j].st = "closed"
     /\ scheduled[k][2] = Min(restartTimeout * backOffFactor, maxRestartTimeout)
     /\ scheduled[k][2] > scheduled[k][1]

\* C36: the subscriptions of different kinds are isolated: a step in
\* which a subscription of one kind fails, as an open watch or as a watch
\* that could not be opened, leaves the delay, the timers, the retries,
\* the onFail calls and every subscription of each other kind as they
\* were, and the list of abort controllers too; and once the watches of
\* the resources before it have resolved or rejected, init() goes on to
\* open the watch of the next resource.
C36_KindsIsolated ==
  /\ [][\A i \in DOMAIN subs :
          (subs[i].st # "closed" /\ subs'[i].st = "closed") =>
             /\ abortControllers' = abortControllers
             /\ \A k \in DOMAIN restartDelay \ {subs[i].kind} :
                   /\ restartDelay'[k] = restartDelay[k]
                   /\ timers'[k] = timers[k]
                   /\ scheduled'[k] = scheduled[k]
                   /\ onFailCalls'[k] = onFailCalls[k]
                   /\ started'[k] = started[k]
                   /\ \A j \in DOMAIN subs : subs[j].kind = k => subs'[j] = subs[j]]_vars
  /\ \A n \in DOMAIN resources :
        (\A m \in 1..(n - 1) : started[resources[m]] /\ WatcherSetUp(resources[m]))
           ~> started[resources[n]]

\* the watch of the first resource could not be opened and waits for its
\* retry with an escalated delay, the watch of the second one is open
\* with the initial delay
C36_Witness ==
  /\ onFailCalls[resources[1]] = <<None>>
  /\ timers[resources[1]] = 1
  /\ restartDelay[resources[1]] > restartTimeout
  /\ restartDelay[resources[2]] = restartTimeout
  /\ \E j \in DOMAIN subs :
        /\ subs[j].kind = resources[2] /\ subs[j].st = "open"
        /\ \E i \in DOMAIN subs : i < j /\ subs[i].kind = resources[1] /\ subs[i].st = "closed"

\* C37: no enqueued event is stranded.  While the queue holds an event a
\* drain loop is at its while test, in a handler, or waits for a handler
\* to settle.  An event enters the queue once, as the newest one; it
\* leaves it only as the head, to have its handler started, or when
\* stop() clears the queue; a handler that has started ends only by
\* completing, and does so once.  And unless stop() is called, every
\* queued event is eventually handled.
C37_NoEventStranded ==
  /\ [](eventQueue # <<>> => (running \in {"loop", "handler"} \/ handlers # {}))
  /\ [][\A n \in 1..nEvents' :
          /\ (~Queued(n) /\ Queued(n)') => (n = nEvents + 1 /\ ~Started(n))
          /\ (Queued(n) /\ ~Queued(n)') =>
                \/ (~stopped /\ stopped')
                \/ /\ eventQueue[1].seq = n /\ eventQueue' = Tail(eventQueue)
                   /\ ~Started(n) /\ Started(n)'
          /\ (~Started(n) /\ Started(n)') => (Queued(n) /\ ~Queued(n)')
          /\ (Started(n) /\ ~Started(n)') => (last.seq # n /\ last'.seq = n)
          /\ (last.seq # n /\ last'.seq = n) => (Started(n) /\ ~Started(n)')]_vars
  /\ \A n \in 1..MaxStopEvents : Queued(n) ~> (stopped \/ last.seq = n)

\* stop() was not called, two events were queued, the handler of the
\* second has completed after a Slack call and the drain loop has ended
C37_Witness ==
  /\ ~stopped
  /\ nEvents = 2
  /\ last.seq = 2
  /\ last.op \in {"create", "update"}
  /\ handlers = {}
  /\ eventQueue = <<>>
  /\ running = "none"
  /\ ~isProcessingQueue

\* the n-th event was queued, stop() has been called, and the event is
\* neither queued nor in a handler nor handled
Discarded(n) ==
  /\ stopped
  /\ n <= nEvents
  /\ ~Queued(n) /\ ~Started(n)
  /\ last.seq < n

\* C38: stop() empties the queue and leaves the handlers in flight, the
\* cache and the record of the last completed handler alone; an event
\* it discarded never has a handler started and is never handled; a
\* handler in flight when stop() was called completes, and on completion
\* writes the entry syncResource leaves for its event, its cache entry
\* and the outcome of its Slack call.
C38_StopDiscardsQueue ==
  /\ [][(~stopped /\ stopped') =>
          /\ eventQueue' = <<>>
          /\ handlers' = handlers
          /\ resourceCacheMap' = resourceCacheMap
          /\ last' = last]_vars
  /\ \A n \in 1..MaxStopEvents : [](Discarded(n) => [](~Started(n) /\ last.seq # n))
  /\ \A n \in 1..MaxStopEvents : (stopped /\ Started(n)) ~> (last.seq = n)
  /\ [][\A n \in 1..nEvents :
          (stopped /\ Started(n) /\ ~Started(n)') =>
             /\ last'.seq = n
             /\ last'.cached = resourceCacheMap[last'.name]
             /\ last'.post = EntryAfter(last'.cached, last'.update, last'.op,
                                        last'.res, Ts(nextTs))
             /\ resourceCacheMap'[last'.name] = last'.post]_vars

\* stop() was called while the handler of the second event waited for
\* Slack and a third event was queued: the handler has posted its message
\* and written the cache, the third event is gone
C38_Witness ==
  /\ stopped
  /\ \A i \in DOMAIN subs : subs[i].aborted
  /\ nEvents = 3
  /\ Discarded(3)
  /\ last.seq = 2 /\ last.op = "create" /\ last.res = "ok"
  /\ resourceCacheMap[last.name] = last.post
  /\ resourceCacheMap[last.name].lastMessageTs = Ts(nextTs - 1)
  /\ eventQueue = <<>> /\ handlers = {} /\ running = "none"

\* -------------------------------------------------------- health check
\* C39: the count of active connections never exceeds
\* MAX_SIMULTANEOUS_CONNECTIONS, and a request connectionLimiter answers
\* with 503 is neither counted nor passed on to healthCheckHandler.
C39_ConnectionLimit ==
  /\ activeConnections <= MAX_SIMULTANEOUS_CONNECTIONS
  /\ \A i \in DOMAIN responses :
        responses[i].status = 503 => (~responses[i].counted /\ ~responses[i].handled)

====
